---------------------------- MODULE Spec2Model ----------------------------
(***************************************************************************)
(* A model of the solar-position and radiative-forcing functions of        *)
(* thermofeel (src/ThermoFeel.py): __julian_date, __declination_angle,     *)
(* calculate_cos_solar_zenith_angle, its period-integrated variant with    *)
(* the recursive horizon search, and calculate_mean_radiant_temperature.   *)
(*                                                                         *)
(* Number representation.  The source computes in IEEE doubles; the model  *)
(* computes in exact rationals where the source's arithmetic is rational   *)
(* (julian date, fractional year) and in fixed point elsewhere:            *)
(*   - a julian date is a mixed number [w, f]: w + f/JDen days;            *)
(*   - angles are integers in centidegrees (1/100 degree);                 *)
(*   - sines and cosines are integers scaled by TrigScale, read from a     *)
(*     one-degree table with linear interpolation.                         *)
(* Rounding of the last bits of a double is outside the model.             *)
(***************************************************************************)
EXTENDS Integers, Sequences, FiniteSets, TLC

VARIABLES
    fn,      \* the library function the caller is exercising
    pc,      \* position inside the current call
    args,    \* arguments of the current call
    loc,     \* local variables of the current call
    ret,     \* value returned by the last completed call
    first    \* the caller's record of its first completed call (args, ret)

vars == <<fn, pc, args, loc, ret, first>>

None == [none |-> TRUE]

----------------------------------------------------------------------------
(* Arithmetic helpers.                                                     *)

Abs(x) == IF x < 0 THEN -x ELSE x

Max(a, b) == IF a >= b THEN a ELSE b

Min(a, b) == IF a <= b THEN a ELSE b

\* floor(a * b / s) for s > 0 without forming a * b
MulDiv(a, b, s) == (a \div s) * b + ((a % s) * b) \div s

\* division rounding toward zero
TruncDiv(a, b) == IF (a >= 0) = (b > 0) THEN Abs(a) \div Abs(b) ELSE -(Abs(a) \div Abs(b))

----------------------------------------------------------------------------
(* Exact rational arithmetic for julian dates.  Every division of          *)
(* __julian_date is Python 3 true division; its divisors are 12, 4, 12,    *)
(* 100, 4, so every value is a multiple of 1/(12*100*4) day.               *)

JDen == 12 * 100 * 4

\* the rational n/den (den divides JDen) as a mixed number
Rat(n, den) == [w |-> n \div den, f |-> (n % den) * (JDen \div den)]

RNorm(w, f) == [w |-> w + (f \div JDen), f |-> f % JDen]

RAdd(a, b) == RNorm(a.w + b.w, a.f + b.f)

RSub(a, b) == RNorm(a.w - b.w, a.f - b.f)

RLeq(a, b) == a.w < b.w \/ (a.w = b.w /\ a.f <= b.f)

\* a small mixed number in units of 1/JDen
RUnits(a) == a.w * JDen + a.f

\* def __julian_date(d, m, y), with the misplaced parenthesis
\* 367 * (m - 2 - (m - 14) / 12) * 12 / 12
julian_date_paren(d, m, y) ==
    LET a12 == m - 14
        t1 == Rat(1461 * (12 * (y + 4800) + a12), 12 * 4)
        t2 == Rat(367 * (12 * (m - 2) - a12), 12)
        t3 == Rat(3 * (12 * (y + 4900) + a12), 12 * 100 * 4)
    IN  RSub(RAdd(RAdd(Rat(d - 32075, 1), t1), t2), t3)

\* def __julian_date(d, m, y): a12 is the numerator of (m - 14) / 12
julian_date(d, m, y) ==
    LET a12 == m - 14
        t1 == Rat(1461 * (12 * (y + 4800) + a12), 12 * 4)
        t2 == Rat(367 * (m - 2 - a12), 12)
        t3 == Rat(3 * (12 * (y + 4900) + a12), 12 * 100 * 4)
    IN  RSub(RAdd(RAdd(Rat(d - 32075, 1), t1), t2), t3)

----------------------------------------------------------------------------
(* Fixed-point trigonometry (np.sin, np.cos, math.acos, np.arcsin).        *)
(* Angles are centidegrees; values are scaled by TrigScale.  The table     *)
(* holds floor(TrigScale * sin(k degrees)), k = 0..90; between table       *)
(* points the value is interpolated linearly, rounding toward zero.        *)

TrigScale == 10000

SinTable ==
    << 0, 174, 348, 523, 697, 871, 1045, 1218, 1391, 1564, 1736, 1908, 2079,
       2249, 2419, 2588, 2756, 2923, 3090, 3255, 3420, 3583, 3746, 3907, 4067, 4226,
       4383, 4539, 4694, 4848, 5000, 5150, 5299, 5446, 5591, 5735, 5877, 6018, 6156,
       6293, 6427, 6560, 6691, 6819, 6946, 7071, 7193, 7313, 7431, 7547, 7660, 7771,
       7880, 7986, 8090, 8191, 8290, 8386, 8480, 8571, 8660, 8746, 8829, 8910, 8987,
       9063, 9135, 9205, 9271, 9335, 9396, 9455, 9510, 9563, 9612, 9659, 9702, 9743,
       9781, 9816, 9848, 9876, 9902, 9925, 9945, 9961, 9975, 9986, 9993, 9998, 10000 >>

\* sin of a first-quadrant angle a in 0..9000
SinQ(a) ==
    LET k == a \div 100
        f == a % 100
    IN  IF f = 0 THEN SinTable[k + 1]
        ELSE SinTable[k + 1] + ((SinTable[k + 2] - SinTable[k + 1]) * f) \div 100

SinC(a) ==
    LET m == a % 36000
    IN  IF m <= 9000 THEN SinQ(m)
        ELSE IF m <= 18000 THEN SinQ(18000 - m)
        ELSE IF m <= 27000 THEN -SinQ(m - 18000)
        ELSE -SinQ(36000 - m)

CosC(a) == SinC(a + 9000)

\* the least angle in lo..hi whose cosine is <= x (the cosine falls on 0..18000)
RECURSIVE AcosSearch(_, _, _)
AcosSearch(x, lo, hi) ==
    IF lo >= hi THEN lo
    ELSE LET mid == (lo + hi) \div 2
         IN  IF CosC(mid) <= x THEN AcosSearch(x, lo, mid)
             ELSE AcosSearch(x, mid + 1, hi)

\* math.acos(x) for -1 <= x <= 1, in centidegrees
AcosC(x) == AcosSearch(x, 0, 18000)

\* np.arcsin(x) for -1 <= x <= 1, in centidegrees
AsinC(x) == 9000 - AcosC(x)

----------------------------------------------------------------------------
(* __declination_angle(jd, h).  The fractional year g = (360 / 365.25) *   *)
(* (jd + h / 24) is kept exactly: t = jd + h/24 in units of 1/JDen day,    *)
(* for which 360 degrees is 365.25 * JDen units.  Declination and time     *)
(* correction are in microdegrees (the six decimals of the coefficients).  *)

\* 360 degrees of g, in units of t
GFull == (36525 * JDen) \div 100

\* jd + (h / 24), jd in units of 1/JDen day
FracYear(jd, h) == jd + h * (JDen \div 24)

\* while (g > 360): g = g - 360
RECURSIVE Wrap(_)
Wrap(g) == IF g > GFull THEN Wrap(g - GFull) ELSE g

\* g in centidegrees (grad = g * to_radians feeds the table directly)
GCdeg(g) == (g * 10) \div (GFull \div 3600)

\* d = 0.396372 - 22.91327 cos(g) + 4.02543 sin(g) - 0.387205 cos(2g)
\*     + 0.051967 sin(2g) - 0.154527 cos(3g) + 0.084798 sin(3g)
DeclSeries(gc) ==
    396372 - MulDiv(22913270, CosC(gc), TrigScale)
           + MulDiv(4025430, SinC(gc), TrigScale)
           - MulDiv(387205, CosC(2 * gc), TrigScale)
           + MulDiv(51967, SinC(2 * gc), TrigScale)
           - MulDiv(154527, CosC(3 * gc), TrigScale)
           + MulDiv(84798, SinC(3 * gc), TrigScale)

\* tc = 0.004297 + 0.107029 cos(g) - 1.837877 sin(g) - 0.837378 cos(2g)
\*      - 2.340475 sin(2g)
TimeCorrSeries(gc) ==
    4297 + MulDiv(107029, CosC(gc), TrigScale)
         - MulDiv(1837877, SinC(gc), TrigScale)
         - MulDiv(837378, CosC(2 * gc), TrigScale)
         - MulDiv(2340475, SinC(2 * gc), TrigScale)

\* the body of __declination_angle from the loop on, t = jd + (h / 24):
\* g after the loop, and the returned d and tc in microdegrees
DeclAt(t) ==
    LET g == Wrap(t)
    IN  [g |-> g, d |-> DeclSeries(GCdeg(g)), tc |-> TimeCorrSeries(GCdeg(g))]

\* def __declination_angle(jd, h), h in whole hours
declination_angle(jd, h) == DeclAt(FracYear(jd, h))

\* microdegrees to centidegrees
MicroToCdeg(x) == TruncDiv(x, 10000)

\* jd = jd_ - jd11_ + 1, in units of 1/JDen day
DayOfYear(d, m, y) == RUnits(RSub(julian_date(d, m, y), julian_date(1, 1, y))) + JDen

----------------------------------------------------------------------------
(* calculate_cos_solar_zenith_angle(lat, lon, y, m, d, h), one grid point: *)
(* lat and lon in whole degrees, the result scaled by TrigScale.           *)

\* sharad = ((h - 12) * 15 + lon + tc) * to_radians, in centidegrees
SolarHourAngle(lon, y, m, d, h) ==
    (h - 12) * 1500 + lon * 100 + MicroToCdeg(declination_angle(DayOfYear(d, m, y), h).tc)

\* csza = sindec_sinlat + cosdec_coslat * np.cos(sharad)
CosZenithRaw(lat, lon, y, m, d, h) ==
    LET dec == declination_angle(DayOfYear(d, m, y), h)
        drad == MicroToCdeg(dec.d)
        latrad == lat * 100
        sindec_sinlat == SinC(drad) * SinC(latrad)
        cosdec_coslat == CosC(drad) * CosC(latrad)
        sharad == SolarHourAngle(lon, y, m, d, h)
    IN  (sindec_sinlat + MulDiv(cosdec_coslat, CosC(sharad), TrigScale)) \div TrigScale

\* return csza, without the clip
cos_solar_zenith_angle_noclip(lat, lon, y, m, d, h) == CosZenithRaw(lat, lon, y, m, d, h)

\* return np.clip(csza, 0, None)
cos_solar_zenith_angle(lat, lon, y, m, d, h) == Max(CosZenithRaw(lat, lon, y, m, d, h), 0)

----------------------------------------------------------------------------
(* calculate_cos_solar_zenith_angle_integrated(lat, lon, y, m, d, h, base, *)
(* step), one grid point.  Hours are counted in half hours here, the       *)
(* resolution of h_offset; angles in centidegrees (pi is 18000).           *)

\* base_offset, lines 198-208
BaseOffset(base) ==
    CASE base = 6 -> 594
      [] base = 18 -> 1806
      [] base = 12 -> 1212
      [] OTHER -> 0

\* 2 * h_offset, lines 199, 210-217
HOffset2(step) ==
    CASE step = 1 -> 1
      [] step = 3 -> 3
      [] step = 6 -> 6
      [] OTHER -> 0

\* maxx after the table, lines 197, 210-218
MaxxTable(step) ==
    CASE step = 1 -> 32
      [] step = 3 -> 14
      [] step = 6 -> 100
      [] OTHER -> 0

\* hh = h - base_offset - h_offset (line 220), in half hours
TableHour(h, base, step) == 2 * h - 2 * BaseOffset(base) - HOffset2(step)

\* hh as line 220 leaves it, without the override of line 224
HourUsedTable(h, base, step) == TableHour(h, base, step)

\* hh after line 224 (hh = h), in half hours
HourUsed(h, base, step) ==
    LET hh == TableHour(h, base, step)
    IN  2 * h

\* maxx as the table leaves it, without the override of line 225
MaxxUsedTable(step) == MaxxTable(step)

\* maxx after line 225 (maxx = 100.0)
MaxxUsed(step) ==
    LET maxx == MaxxTable(step)
    IN  100

\* a quotient whose divisor is floored at 1.0e-12 (max(.., 1.0e-12),
\* np.clip(.., 1.0e-12, None)); num is scaled by TrigScale^2 and den by
\* TrigScale.  A divisor under one unit of TrigScale is the floor itself;
\* the quotient is then beyond every bound it is compared with, and is
\* represented by +-100.
DivFloored(num, den) ==
    IF den > 0 THEN TruncDiv(num, den)
    ELSE IF num > 0 THEN 100 * TrigScale
    ELSE IF num < 0 THEN -100 * TrigScale
    ELSE 0

\* zcoshouranglesunset with the leading minus sign dropped
CosHourAngleSunsetPlus(ztandec, latrad) ==
    DivFloored(ztandec * SinC(latrad), CosC(latrad))

\* zcoshouranglesunset = -ztandec * np.sin(latrad) / np.clip(np.cos(latrad), 1.0e-12, None)
CosHourAngleSunset(ztandec, latrad) ==
    DivFloored(-ztandec * SinC(latrad), CosC(latrad))

\* lines 227-248: the locals the nested functions read
IntegratedLocals(lat, lon, y, m, d, h, base, step) ==
    LET hh == HourUsed(h, base, step)
        maxx == MaxxUsed(step)
        jd == DayOfYear(d, m, y)
        dec == DeclAt(jd + hh * (JDen \div 48))
        dc == MicroToCdeg(dec.d)
        sha == (hh - 24) * 750 + (lon + 180) * 50 + MicroToCdeg(dec.tc)
        latrad == lat * 100
        lonrad == (lon + 180) * 50
        zhalftimestep == 750 * step
        ztandec == DivFloored(SinC(dc) * TrigScale, CosC(dc))
    IN  [ hh |-> hh, maxx |-> maxx, jd |-> jd, g |-> dec.g, d |-> dec.d, tc |-> dec.tc,
          sha |-> sha, lonrad |-> lonrad,
          zhalftimestep |-> zhalftimestep,
          zsolartimestart |-> sha - zhalftimestep,
          zsolartimeend |-> sha + zhalftimestep,
          zcoshouranglesunset |-> CosHourAngleSunset(ztandec, latrad),
          zsindecsinlat |-> SinC(dc) * SinC(latrad),
          zcosdeccoslat |-> CosC(dc) * CosC(latrad) ]

\* one evaluation of horizon(val, rrange, ...) recursing with rrange + 1
horizon_odd(val, rrange, lonrad, zsolartimestart, zsolartimeend, maxx) ==
    IF val < rrange * 18000
    THEN [ returns |-> TRUE,
           zhouranglestart |-> zsolartimestart + lonrad - (rrange - 1) * 18000,
           zhourangleend |-> zsolartimeend + lonrad - (rrange - 1) * 18000 ]
    ELSE IF rrange < maxx
    THEN [ returns |-> FALSE, rrange |-> rrange + 1 ]
    ELSE [ returns |-> TRUE,
           zhouranglestart |-> zsolartimestart + lonrad - (maxx + 1) * 18000,
           zhourangleend |-> zsolartimeend + lonrad - (maxx + 1) * 18000 ]

\* one evaluation of horizon(...) shifting the end of a resolved window by
\* rrange * pi
horizon_skew(val, rrange, lonrad, zsolartimestart, zsolartimeend, maxx) ==
    IF val < rrange * 18000
    THEN [ returns |-> TRUE,
           zhouranglestart |-> zsolartimestart + lonrad - (rrange - 1) * 18000,
           zhourangleend |-> zsolartimeend + lonrad - rrange * 18000 ]
    ELSE IF rrange < maxx
    THEN [ returns |-> FALSE, rrange |-> rrange + 2 ]
    ELSE [ returns |-> TRUE,
           zhouranglestart |-> zsolartimestart + lonrad - (maxx + 1) * 18000,
           zhourangleend |-> zsolartimeend + lonrad - (maxx + 1) * 18000 ]

\* one evaluation of horizon(...) saturating with maxx * pi
horizon_cap(val, rrange, lonrad, zsolartimestart, zsolartimeend, maxx) ==
    IF val < rrange * 18000
    THEN [ returns |-> TRUE,
           zhouranglestart |-> zsolartimestart + lonrad - (rrange - 1) * 18000,
           zhourangleend |-> zsolartimeend + lonrad - (rrange - 1) * 18000 ]
    ELSE IF rrange < maxx
    THEN [ returns |-> FALSE, rrange |-> rrange + 2 ]
    ELSE [ returns |-> TRUE,
           zhouranglestart |-> zsolartimestart + lonrad - maxx * 18000,
           zhourangleend |-> zsolartimeend + lonrad - maxx * 18000 ]

\* one evaluation of horizon(val, rrange, lonrad, zsolartimestart,
\* zsolartimeend, maxx): it returns the shifted window, or recurses
horizon(val, rrange, lonrad, zsolartimestart, zsolartimeend, maxx) ==
    IF val < rrange * 18000
    THEN [ returns |-> TRUE,
           zhouranglestart |-> zsolartimestart + lonrad - (rrange - 1) * 18000,
           zhourangleend |-> zsolartimeend + lonrad - (rrange - 1) * 18000 ]
    ELSE IF rrange < maxx
    THEN [ returns |-> FALSE, rrange |-> rrange + 2 ]
    ELSE [ returns |-> TRUE,
           zhouranglestart |-> zsolartimestart + lonrad - (maxx + 1) * 18000,
           zhourangleend |-> zsolartimeend + lonrad - (maxx + 1) * 18000 ]

\* a window width in units of 1.0e-5 radian
WidthRad(w) == (w * 174533) \div 10000

\* lines 273-283 without the clamp of lines 277-278
WindowAverageNoClamp(zcoshouranglesunset, zsindecsinlat, zcosdeccoslat, start0, end0) ==
    LET clamp == zcoshouranglesunset >= -TrigScale
        hs == IF clamp THEN AcosC(zcoshouranglesunset) ELSE 0
        night == clamp /\ (end0 <= -hs \/ start0 >= hs)
        w == end0 - start0
        PMU0 == IF w > 0
                THEN Max(0, (zsindecsinlat
                             + MulDiv(zcosdeccoslat,
                                      ((SinC(end0) - SinC(start0)) * 100000) \div WidthRad(w),
                                      TrigScale)) \div TrigScale)
                ELSE 0
    IN  [ clamp |-> clamp, zhouranglesunset |-> hs, night |-> night,
          zhouranglestart |-> start0, zhourangleend |-> end0, PMU0 |-> PMU0 ]

\* lines 273-283 of solar_zenith_angle_average, after horizon returned
\* (zcoshouranglesunset <= 1): the clamped window and PMU0.  A width of one
\* centidegree is over 1.0e-8 radian, so the test of line 280 is w > 0.
WindowAverage(zcoshouranglesunset, zsindecsinlat, zcosdeccoslat, start0, end0) ==
    LET clamp == zcoshouranglesunset >= -TrigScale
        hs == IF clamp THEN AcosC(zcoshouranglesunset) ELSE 0
        night == clamp /\ (end0 <= -hs \/ start0 >= hs)
        start == IF clamp THEN Max(-hs, Min(start0, hs)) ELSE start0
        end == IF clamp THEN Max(-hs, Min(end0, hs)) ELSE end0
        w == end - start
        PMU0 == IF w > 0
                THEN Max(0, (zsindecsinlat
                             + MulDiv(zcosdeccoslat,
                                      ((SinC(end) - SinC(start)) * 100000) \div WidthRad(w),
                                      TrigScale)) \div TrigScale)
                ELSE 0
    IN  [ clamp |-> clamp, zhouranglesunset |-> hs, night |-> night,
          zhouranglestart |-> start, zhourangleend |-> end, PMU0 |-> PMU0 ]

----------------------------------------------------------------------------
(* calculate_mean_radiant_temperature(ssrd, ssr, fdir, strd, strr,         *)
(* cossza).  The arguments are the caller's arrays, one element per grid    *)
(* point: fluxes in whole units, cossza scaled by TrigScale.  The result   *)
(* is in hundredths of a degree Celsius.                                   *)

\* the result of np.power for a negative base
NaN == -99999

\* floor of the square root of n, 0 <= n < 2^31
RECURSIVE IsqrtSearch(_, _, _)
IsqrtSearch(n, lo, hi) ==
    IF lo >= hi THEN lo
    ELSE LET mid == (lo + hi + 1) \div 2
         IN  IF mid * mid <= n THEN IsqrtSearch(n, mid, hi)
             ELSE IsqrtSearch(n, lo, mid - 1)

Isqrt(n) == IsqrtSearch(n, 0, 46340)

\* fp = 0.308 * np.cos(np.pi / 180) * gamma * 0.998 - gamma * gamma / 50000
\* with gamma = np.arcsin(cossza) * 180 / np.pi, in thousandths
ProjectedArea(cossza) ==
    LET gamma == AsinC(cossza)
        lin == MulDiv(MulDiv(308 * gamma, CosC(100), TrigScale), 998, 1000)
    IN  (lin - (gamma * gamma) \div 5000) \div 100

\* the direct flux divided by cossza at every point (no filter)
NormalisedFdirAll(fdir, cossza) ==
    IF cossza > 0 THEN MulDiv(fdir, TrigScale, cossza) ELSE fdir

\* lines 312-313 at one point: fdir / cossza where cossza > 0.01
NormalisedFdir(fdir, cossza) ==
    IF cossza > 100 THEN MulDiv(fdir, TrigScale, cossza) ELSE fdir

\* np.power((1 / 0.0000000567) * x, 0.25) and __kelvin_to_celcius, x2 = 2x:
\* the fourth root as two square roots, 1 / sqrt(0.0000000567) = 4199.6
RootCelsius(x2) ==
    IF x2 < 0 THEN NaN
    ELSE LET s == Isqrt(x2 * 50)
             tsq == MulDiv(s, 419960, 1000)
         IN  Isqrt(tsq * 100) * 10 - 27315

\* twice the bracket of line 316 with rsw = ssrd + ssr
Radicand2Plus(ssrd, ssr, fdir, strd, strr, cossza) ==
    LET dsw == ssrd - fdir
        rsw == ssrd + ssr
        lur == strd - strr
        fp == ProjectedArea(cossza)
        fdirn == NormalisedFdir(fdir, cossza)
    IN  strd + lur + MulDiv(dsw + rsw + 2 * MulDiv(fdirn, fp, 1000), 70, 97)

\* twice the bracket of line 316 at one point:
\* 0.5 strd + 0.5 lur + (0.7 / 0.97) (0.5 dsw + 0.5 rsw + fp fdir),
\* dsw, rsw, lur from lines 302-304 and fdir as lines 312-313 leave it
Radicand2(ssrd, ssr, fdir, strd, strr, cossza) ==
    LET dsw == ssrd - fdir
        rsw == ssrd - ssr
        lur == strd - strr
        fp == ProjectedArea(cossza)
        fdirn == NormalisedFdir(fdir, cossza)
    IN  strd + lur + MulDiv(dsw + rsw + 2 * MulDiv(fdirn, fp, 1000), 70, 97)

\* the call on the caller's arrays a: the returned array and fdir as the
\* call leaves it (line 313 assigns into the caller's array)
mean_radiant_temperature(a) ==
    LET n == Len(a.ssrd)
    IN  [ mrt |-> [i \in 1 .. n |->
                     RootCelsius(Radicand2(a.ssrd[i], a.ssr[i], a.fdir[i], a.strd[i],
                                           a.strr[i], a.cossza[i]))],
          fdir |-> [i \in 1 .. n |-> NormalisedFdir(a.fdir[i], a.cossza[i])] ]

----------------------------------------------------------------------------
(* The calendar the caller walks through (datetime values of the driver).  *)

LastYear == 2001

IsLeap(y) == (y % 4 = 0 /\ y % 100 # 0) \/ y % 400 = 0

DaysInMonth(m, y) ==
    IF m = 2 THEN (IF IsLeap(y) THEN 29 ELSE 28)
    ELSE IF m \in {4, 6, 9, 11} THEN 30 ELSE 31

NextDay(dt) ==
    IF dt.d < DaysInMonth(dt.m, dt.y) THEN [dt EXCEPT !.d = dt.d + 1]
    ELSE IF dt.m < 12 THEN [d |-> 1, m |-> dt.m + 1, y |-> dt.y]
    ELSE [d |-> 1, m |-> 1, y |-> dt.y + 1]

DateLeq(a, b) ==
    \/ a.y < b.y
    \/ a.y = b.y /\ a.m < b.m
    \/ a.y = b.y /\ a.m = b.m /\ a.d <= b.d

StartDates ==
    { [d |-> 1, m |-> 1, y |-> 1999],
      [d |-> 27, m |-> 2, y |-> 2000],
      [d |-> 30, m |-> 12, y |-> 2000] }

----------------------------------------------------------------------------
(* fn = "julian_date": the caller converts a date, then the following days *)

InitJulian ==
    /\ fn = "julian_date"
    /\ pc = "call"
    /\ args \in StartDates
    /\ loc = None
    /\ ret = None
    /\ first = None

\* jd_ = __julian_date(d, m, y)
JulianCall ==
    /\ fn = "julian_date"
    /\ pc = "call"
    /\ ret' = julian_date(args.d, args.m, args.y)
    /\ first' = IF first = None THEN [args |-> args, ret |-> ret'] ELSE first
    /\ pc' = "done"
    /\ UNCHANGED <<fn, args, loc>>

\* the caller moves on to the next calendar day
JulianNextDay ==
    /\ fn = "julian_date"
    /\ pc = "done"
    /\ NextDay(args).y <= LastYear
    /\ args' = NextDay(args)
    /\ pc' = "call"
    /\ UNCHANGED <<fn, loc, ret, first>>

----------------------------------------------------------------------------
(* fn = "declination": __declination_angle on a day of year and an hour.   *)

DeclDays == {1, 80, 172, 266, 355, 364, 365, 366, 730}

Hours == 0 .. 23

InitDecl ==
    /\ fn = "declination"
    /\ pc = "call"
    /\ args \in [jd : {k * JDen : k \in DeclDays}, h : Hours]
    /\ loc = None
    /\ ret = None
    /\ first = None

\* d, tc = __declination_angle(jd, h)
DeclCall ==
    /\ fn = "declination"
    /\ pc = "call"
    /\ LET r == declination_angle(args.jd, args.h)
       IN  /\ loc' = [g0 |-> FracYear(args.jd, args.h), g |-> r.g]
           /\ ret' = [d |-> r.d, tc |-> r.tc]
    /\ pc' = "done"
    /\ UNCHANGED <<fn, args, first>>

----------------------------------------------------------------------------
(* fn = "cos_sza": calculate_cos_solar_zenith_angle at one grid point.     *)

Lats == {-90, -45, 0, 45, 90}

Lons == {-180, -90, 0, 90, 180, 360}

ZenDates ==
    { [d |-> 20, m |-> 3, y |-> 2020],
      [d |-> 21, m |-> 6, y |-> 2020],
      [d |-> 21, m |-> 12, y |-> 2020],
      [d |-> 31, m |-> 12, y |-> 2021] }

InitZenith ==
    /\ fn = "cos_sza"
    /\ pc = "call"
    /\ \E lat \in Lats, lon \in Lons, dt \in ZenDates, h \in Hours :
          args = [lat |-> lat, lon |-> lon, y |-> dt.y, m |-> dt.m, d |-> dt.d, h |-> h]
    /\ loc = None
    /\ ret = None
    /\ first = None

ZenithCall ==
    /\ fn = "cos_sza"
    /\ pc = "call"
    /\ ret' = cos_solar_zenith_angle(args.lat, args.lon, args.y, args.m, args.d, args.h)
    /\ pc' = "done"
    /\ UNCHANGED <<fn, args, loc, first>>

----------------------------------------------------------------------------
(* fn = "cos_sza_integrated": one grid point of                            *)
(* calculate_cos_solar_zenith_angle_integrated; the caller may repeat a    *)
(* finished call with another forecast base.                               *)

Bases == {0, 6, 12, 18}

Steps == {1, 3, 6}

IntegLats == {-90, 0, 45, 90}

\* longitudes of both conventions, [-180, 180] and [0, 360]
IntegLons == {-180, 0, 90, 360}

IntegDates ==
    { [d |-> 20, m |-> 3, y |-> 2020],
      [d |-> 21, m |-> 6, y |-> 2020],
      [d |-> 21, m |-> 12, y |-> 2020] }

\* the first and the last day of December, for the north pole
PolarDates ==
    { [d |-> 1, m |-> 12, y |-> 2020],
      [d |-> 31, m |-> 12, y |-> 2020] }

\* longitudes many revolutions off, for which the horizon search runs long
\* or reaches its cap
FarLons == {3600, 9000, 17640, 18000}

IntegArgs(lat, lon, dt, h, base, step) ==
    [lat |-> lat, lon |-> lon, y |-> dt.y, m |-> dt.m, d |-> dt.d,
     h |-> h, base |-> base, step |-> step]

\* the first call of a caller is for base 0; IntegratedAgain brings the
\* other bases
IntegInputs ==
    { IntegArgs(lat, lon, dt, h, 0, step) :
        lat \in IntegLats, lon \in IntegLons, dt \in IntegDates, h \in Hours,
        step \in Steps }
    \cup
    { IntegArgs(90, 0, dt, h, 0, step) : dt \in PolarDates, h \in Hours, step \in Steps }
    \cup
    { IntegArgs(0, lon, [d |-> 20, m |-> 3, y |-> 2020], h, 0, step) :
        lon \in FarLons, h \in {0, 12, 23}, step \in {1, 6} }

InitIntegrated ==
    /\ fn = "cos_sza_integrated"
    /\ pc = "call"
    /\ args \in IntegInputs
    /\ loc = None
    /\ ret = None
    /\ first = None

\* lines 197-248 and 268-271: the locals, PMU0 = 0, and either the return of
\* the permanent night or the first call of horizon, with rrange = 2
IntegratedCall ==
    /\ fn = "cos_sza_integrated"
    /\ pc = "call"
    /\ LET l == IntegratedLocals(args.lat, args.lon, args.y, args.m, args.d,
                                 args.h, args.base, args.step)
       IN  IF l.zcoshouranglesunset <= TrigScale
           THEN /\ loc' = [ l |-> l, val |-> l.sha + l.lonrad, rrange |-> 2, evals |-> 0,
                            PMU0 |-> 0 ]
                /\ pc' = "horizon"
                /\ ret' = None
           ELSE /\ loc' = [ l |-> l, PMU0 |-> 0 ]
                /\ pc' = "done"
                /\ ret' = 0
    /\ UNCHANGED <<fn, args, first>>

\* lines 252-264: one evaluation of horizon
HorizonEval ==
    /\ fn = "cos_sza_integrated"
    /\ pc = "horizon"
    /\ LET r == horizon(loc.val, loc.rrange, loc.l.lonrad, loc.l.zsolartimestart,
                        loc.l.zsolartimeend, loc.l.maxx)
       IN  IF r.returns
           THEN /\ loc' = [ l |-> loc.l, val |-> loc.val, rrange |-> loc.rrange,
                            evals |-> loc.evals + 1, PMU0 |-> 0,
                            zhouranglestart |-> r.zhouranglestart,
                            zhourangleend |-> r.zhourangleend ]
                /\ pc' = "average"
           ELSE /\ loc' = [loc EXCEPT !.rrange = r.rrange, !.evals = loc.evals + 1]
                /\ pc' = "horizon"
    /\ UNCHANGED <<fn, args, ret, first>>

\* lines 273-285: clamp the window, average, return PMU0
Average ==
    /\ fn = "cos_sza_integrated"
    /\ pc = "average"
    /\ LET a == WindowAverage(loc.l.zcoshouranglesunset, loc.l.zsindecsinlat,
                              loc.l.zcosdeccoslat, loc.zhouranglestart, loc.zhourangleend)
       IN  /\ loc' = [ l |-> loc.l, val |-> loc.val, rrange |-> loc.rrange,
                       evals |-> loc.evals, shifted |-> [zhouranglestart |-> loc.zhouranglestart,
                                                         zhourangleend |-> loc.zhourangleend],
                       a |-> a, PMU0 |-> a.PMU0 ]
           /\ ret' = a.PMU0
    /\ pc' = "done"
    /\ UNCHANGED <<fn, args, first>>

\* the caller keeps the result and calls again with another base
IntegratedAgain ==
    /\ fn = "cos_sza_integrated"
    /\ pc = "done"
    /\ first = None
    /\ \E base \in Bases \ {args.base} :
          args' = [args EXCEPT !.base = base]
    /\ first' = [args |-> args, ret |-> ret]
    /\ pc' = "call"
    /\ loc' = None
    /\ ret' = None
    /\ UNCHANGED fn

----------------------------------------------------------------------------
(* fn = "mrt": the caller builds the six arrays and calls                  *)
(* calculate_mean_radiant_temperature, again and again with the same       *)
(* arrays.                                                                 *)

GridLen == 2

MaxCalls == 3

\* grid points: night, absorbed diffuse light, sun at three heights, the
\* filter threshold and just above it, and a negative radicand
Points ==
    { [ssrd |-> 0, ssr |-> 0, fdir |-> 0, strd |-> 350, strr |-> -50, cossza |-> 0],
      [ssrd |-> 400, ssr |-> 400, fdir |-> 0, strd |-> 350, strr |-> -50, cossza |-> 0],
      [ssrd |-> 600, ssr |-> 480, fdir |-> 400, strd |-> 350, strr |-> -60, cossza |-> 2500],
      [ssrd |-> 600, ssr |-> 480, fdir |-> 400, strd |-> 350, strr |-> -60, cossza |-> 5000],
      [ssrd |-> 600, ssr |-> 480, fdir |-> 400, strd |-> 350, strr |-> -60, cossza |-> 10000],
      [ssrd |-> 10, ssr |-> 8, fdir |-> 1, strd |-> 300, strr |-> -50, cossza |-> 100],
      [ssrd |-> 10, ssr |-> 8, fdir |-> 1, strd |-> 300, strr |-> -50, cossza |-> 101],
      [ssrd |-> 0, ssr |-> 0, fdir |-> 0, strd |-> 0, strr |-> 500, cossza |-> 0] }

\* the six arrays holding the grid points ps
Arrays(ps) ==
    [ ssrd |-> [i \in 1 .. Len(ps) |-> ps[i].ssrd],
      ssr |-> [i \in 1 .. Len(ps) |-> ps[i].ssr],
      fdir |-> [i \in 1 .. Len(ps) |-> ps[i].fdir],
      strd |-> [i \in 1 .. Len(ps) |-> ps[i].strd],
      strr |-> [i \in 1 .. Len(ps) |-> ps[i].strr],
      cossza |-> [i \in 1 .. Len(ps) |-> ps[i].cossza] ]

InitMRT ==
    /\ fn = "mrt"
    /\ pc = "call"
    /\ \E ps \in [1 .. GridLen -> Points] : args = Arrays(ps)
    /\ loc = [calls |-> 0]
    /\ ret = None
    /\ first = None

\* mrt = calculate_mean_radiant_temperature(ssrd, ssr, fdir, strd, strr, cossza)
MRTCall ==
    /\ fn = "mrt"
    /\ pc = "call"
    /\ LET r == mean_radiant_temperature(args)
       IN  /\ ret' = r.mrt
           /\ args' = [args EXCEPT !.fdir = r.fdir]
           /\ first' = IF first = None THEN [args |-> args, ret |-> r.mrt] ELSE first
    /\ loc' = [calls |-> loc.calls + 1]
    /\ pc' = "done"
    /\ UNCHANGED fn

\* the caller calls again with the arrays it holds
MRTAgain ==
    /\ fn = "mrt"
    /\ pc = "done"
    /\ loc.calls < MaxCalls
    /\ pc' = "call"
    /\ UNCHANGED <<fn, args, loc, ret, first>>

----------------------------------------------------------------------------
Init == InitJulian \/ InitDecl \/ InitZenith \/ InitIntegrated \/ InitMRT

NextJulian == JulianCall \/ JulianNextDay

NextIntegrated == IntegratedCall \/ HorizonEval \/ Average \/ IntegratedAgain

NextMRT == MRTCall \/ MRTAgain

Next ==
    \/ JulianCall \/ JulianNextDay
    \/ DeclCall
    \/ ZenithCall
    \/ IntegratedCall \/ HorizonEval \/ Average \/ IntegratedAgain
    \/ MRTCall \/ MRTAgain

\* every function, the caller choosing one
Spec == Init /\ [][Next]_vars

\* one function at a time
SpecJulian == InitJulian /\ [][NextJulian]_vars

SpecDecl == InitDecl /\ [][DeclCall]_vars

SpecZenith == InitZenith /\ [][ZenithCall]_vars

SpecIntegrated == InitIntegrated /\ [][NextIntegrated]_vars

SpecMRT == InitMRT /\ [][NextMRT]_vars

\* a call that has started an evaluation of horizon finishes it: the
\* interpreter runs a single thread and nothing suspends it
LiveIntegrated == SpecIntegrated /\ WF_vars(HorizonEval)

----------------------------------------------------------------------------
(* Claims.                                                                 *)

Done(f) == fn = f /\ pc = "done"

\* C1: julian_day returns the standard Julian day number of the date; in
\* particular julian_day(day=1, month=1, year=2000) is exactly 2451545.
C1_ReferenceValue ==
    (Done("julian_date") /\ args = [d |-> 1, m |-> 1, y |-> 2000])
        => ret = [w |-> 2451545, f |-> 0]

\* the closed form of __julian_date with every division a floor division
JulianFloor(d, m, y) ==
    d - 32075 + (1461 * (y + 4800 + ((m - 14) \div 12))) \div 4
      + (367 * (m - 2 - ((m - 14) \div 12) * 12)) \div 12
      - (3 * ((y + 4900 + ((m - 14) \div 12)) \div 100)) \div 4

\* C2: for every day, month and year julian_day returns an integer, equal to
\* its closed form evaluated with floor division throughout.
C2_IntegerFloorDivision ==
    Done("julian_date")
        => ret = [w |-> JulianFloor(args.d, args.m, args.y), f |-> 0]

\* C3: julian_day is monotonically non-decreasing in calendar date: for
\* dates A not later than B, julian_day(A) <= julian_day(B).
C3_Monotone ==
    (Done("julian_date") /\ first # None /\ DateLeq(first.args, args))
        => RLeq(first.ret, ret)

\* A = 27 Feb 2000 and B = 1 Jan 2001: the pair straddles a leap day, month
\* boundaries and a year boundary
C3_Witness ==
    /\ Done("julian_date")
    /\ first # None
    /\ first.args = [d |-> 27, m |-> 2, y |-> 2000]
    /\ args = [d |-> 1, m |-> 1, y |-> 2001]
    /\ first.ret # ret

\* C4: the fractional-year angle fed to the Fourier series satisfies
\* 0 <= g < 360 for every day_of_year and hour.
C4_WrappedBelow360 ==
    Done("declination") => (0 <= loc.g /\ loc.g < GFull)

\* C5: calculate_cos_solar_zenith_angle returns a value in [0, 1]: a
\* negative cosine is returned as 0 and the result never exceeds 1.
C5_ZenithInUnitRange ==
    Done("cos_sza") => (0 <= ret /\ ret <= TrigScale)

\* a midnight call at 45N on the Greenwich meridian: the raw cosine is
\* negative and 0 is returned
C5_Witness ==
    /\ Done("cos_sza")
    /\ args.lat = 45 /\ args.lon = 0 /\ args.h = 0
    /\ CosZenithRaw(args.lat, args.lon, args.y, args.m, args.d, args.h) < 0
    /\ ret = 0

Integ == fn = "cos_sza_integrated"

\* C6: cos_zenith_integrated returns 0 whenever the point is in permanent
\* night (cos(hour_angle_sunset) > 1); at lat = 90 in December that is the
\* case for every hour, base and step.
C6_PermanentNightIsZero ==
    (Integ /\ pc = "done")
        => /\ loc.l.zcoshouranglesunset > TrigScale => ret = 0
           /\ (args.lat = 90 /\ args.m = 12)
                 => (loc.l.d < 0 /\ loc.l.zcoshouranglesunset > TrigScale /\ ret = 0)

\* the north pole on 21 December at 12h, base 18, step 6
C6_Witness ==
    /\ Integ /\ pc = "done"
    /\ args.lat = 90 /\ args.m = 12 /\ args.d = 21 /\ args.h = 12
    /\ args.base = 18 /\ args.step = 6
    /\ loc.l.zcoshouranglesunset > TrigScale
    /\ ret = 0

\* the locals that do not hold the window half-width
StepFree(l) ==
    [hh |-> l.hh, maxx |-> l.maxx, g |-> l.g, d |-> l.d, tc |-> l.tc, sha |-> l.sha,
     lonrad |-> l.lonrad, zcoshouranglesunset |-> l.zcoshouranglesunset,
     zsindecsinlat |-> l.zsindecsinlat, zcosdeccoslat |-> l.zcosdeccoslat]

\* C7: the base/step offset table is never applied: the hour used is the
\* caller's h, the cap is 100, two calls that differ only in base return
\* the same result, and step reaches the result only through the window
\* half-width.
C7_OffsetTableUnused ==
    (Integ /\ pc # "call")
        => /\ loc.l.hh = 2 * args.h
           /\ loc.l.maxx = 100
           /\ loc.l.zhalftimestep = 750 * args.step
           /\ pc = "done"
                 => \A step \in Steps :
                       StepFree(IntegratedLocals(args.lat, args.lon, args.y, args.m, args.d,
                                                 args.h, args.base, step)) = StepFree(loc.l)
           /\ (pc = "done" /\ first # None)
                 => /\ first.args = [args EXCEPT !.base = first.args.base]
                    /\ first.args.base # args.base
                    /\ first.ret = ret

\* a daytime average computed with base 0, then again with base 18
C7_Witness ==
    /\ Integ /\ pc = "done"
    /\ first # None
    /\ first.args.base = 0 /\ args.base = 18
    /\ args.step = 3
    /\ ret > 0
    /\ first.ret = ret

HorizonStarted == Integ /\ pc \in {"horizon", "average", "done"} /\ "rrange" \in DOMAIN loc

EvenTo100 == {2 * k : k \in 1 .. 50}

\* C10: the horizon search terminates for every val: from r = 2 it visits
\* only the even values 2, 4, ..., 100, makes at most 50 evaluations and
\* never recurses with r greater than 100.
C10_HorizonTerminates ==
    /\ [](HorizonStarted
            => /\ loc.rrange \in EvenTo100
               /\ loc.evals <= 50
               /\ pc = "horizon" => loc.evals = (loc.rrange \div 2) - 1
               /\ pc # "horizon" => loc.evals = loc.rrange \div 2)
    /\ ((Integ /\ pc = "horizon") ~> (Integ /\ pc = "average"))

\* the cap: val >= 100 pi, r = 100 was evaluated, the 50th evaluation, and
\* the saturated shift was returned
C10_Witness ==
    /\ Integ /\ pc = "average"
    /\ loc.val >= 100 * 18000
    /\ loc.rrange = 100
    /\ loc.evals = 50
    /\ loc.zhouranglestart = loc.l.zsolartimestart + loc.l.lonrad - 101 * 18000

\* a grid point with fdir = 0, ssrd = ssr and cos_zenith = 0
AbsorbedDiffuse(a, i) == a.fdir[i] = 0 /\ a.ssrd[i] = a.ssr[i] /\ a.cossza[i] = 0

\* C8 as stated: with fdir = 0, ssrd = ssr and cos_zenith = 0 the result is
\* a function of strd and strr only: two evaluations with the same strd and
\* strr but different ssrd (= ssr) return the same result.
C8_FunctionOfLongwaveOnly ==
    (fn = "mrt" /\ pc = "done" /\ loc.calls = 1)
        => \A i, j \in 1 .. Len(ret) :
              ( /\ AbsorbedDiffuse(first.args, i) /\ AbsorbedDiffuse(first.args, j)
                /\ first.args.strd[i] = first.args.strd[j]
                /\ first.args.strr[i] = first.args.strr[j] )
                 => ret[i] = ret[j]

\* C8 amended: with fdir = 0, ssrd = ssr and cos_zenith = 0 the fp-weighted
\* term and rsw vanish but the diffuse term 0.5 dsw = 0.5 ssrd remains: the
\* result is the function ((1/sigma) (0.5 strd + 0.5 (strd - strr)
\* + (0.7/0.97) 0.5 ssrd))^0.25 - 273.15 of strd, strr and ssrd.
C8_FunctionOfLongwaveAndSsrd ==
    (fn = "mrt" /\ pc = "done" /\ loc.calls = 1)
        => \A i \in 1 .. Len(ret) :
              AbsorbedDiffuse(first.args, i)
                 => ret[i] = RootCelsius(first.args.strd[i]
                                         + (first.args.strd[i] - first.args.strr[i])
                                         + MulDiv(first.args.ssrd[i], 70, 97))

\* two points with the same strd and strr, one with ssrd = ssr = 0 and one
\* with ssrd = ssr = 400, returned different temperatures
C8_Witness ==
    /\ fn = "mrt" /\ pc = "done" /\ loc.calls = 1
    /\ AbsorbedDiffuse(first.args, 1) /\ AbsorbedDiffuse(first.args, 2)
    /\ first.args.strd[1] = first.args.strd[2]
    /\ first.args.strr[1] = first.args.strr[2]
    /\ first.args.ssrd[1] = 0 /\ first.args.ssrd[2] = 400
    /\ ret[1] # NaN /\ ret[2] # NaN
    /\ ret[1] < ret[2]

\* C9: calculate_mean_radiant_temperature leaves its arguments unchanged:
\* after a call ssrd, ssr, fdir, strd, strr and cossza hold the values they
\* held before it, and repeated calls with the same arrays return the same
\* result each time.
C9_ArgumentsUnchanged ==
    (fn = "mrt" /\ pc = "done") => (args = first.args /\ ret = first.ret)


\* C11: horizon, called with val = sha pi/180 + lonrad, selects the smallest
\* even r in 2, 4, ..., 100 with val < r pi and shifts the start and the end
\* of the window by lonrad - (r - 1) pi; when there is none (val >= 100 pi)
\* both are shifted by lonrad - 101 pi.  Start and end are shifted by the
\* same amount, so the width stays twice the half window.
C11_HorizonShift ==
    (Integ /\ pc = "average")
        => LET r == loc.rrange
               shift == loc.zhouranglestart - loc.l.zsolartimestart
           IN  /\ loc.val < 100 * 18000
                     => /\ r \in EvenTo100
                        /\ loc.val < r * 18000
                        /\ \A q \in EvenTo100 : q < r => loc.val >= q * 18000
                        /\ shift = loc.l.lonrad - (r - 1) * 18000
               /\ loc.val >= 100 * 18000
                     => shift = loc.l.lonrad - 101 * 18000
               /\ loc.zhourangleend - loc.l.zsolartimeend = shift
               /\ loc.zhourangleend - loc.zhouranglestart = 2 * loc.l.zhalftimestep

\* a search that passed r = 2 and resolved under the cap, for a window of
\* six hours
C11_Witness ==
    /\ Integ /\ pc = "average"
    /\ loc.rrange > 2 /\ loc.rrange < 100
    /\ loc.val < loc.rrange * 18000
    /\ loc.val >= (loc.rrange - 2) * 18000
    /\ args.step = 6
    /\ loc.zhourangleend - loc.zhouranglestart = 2 * 750 * 6

\* C12: the horizon search folds the window into the half-day period of the
\* local time: for every hour 0..23 and every longitude in [-180, 180] and
\* in [0, 360] the centre (start + end) / 2 of the shifted window lies in
\* [-pi, pi).
C12_CentreInHalfDay ==
    (Integ /\ pc = "average" /\ args.lon \in IntegLons)
        => /\ -2 * 18000 <= loc.zhouranglestart + loc.zhourangleend
           /\ loc.zhouranglestart + loc.zhourangleend < 2 * 18000

\* a finished call that went through horizon and the averaging
Averaged == Integ /\ pc = "done" /\ "a" \in DOMAIN loc

\* C13: when -1 <= cos(hour_angle_sunset) <= 1 and the shifted window lies
\* entirely in night (end <= -hour_angle_sunset or start >= hour_angle_sunset,
\* with start <= end) the returned average is 0; the window is clamped into
\* [-hour_angle_sunset, hour_angle_sunset] with start <= end preserved, and
\* a clamped window of no width also returns 0.
C13_NightWindowIsZero ==
    (Averaged /\ loc.l.zcoshouranglesunset >= -TrigScale)
        => LET hs == AcosC(loc.l.zcoshouranglesunset)
               start0 == loc.shifted.zhouranglestart
               end0 == loc.shifted.zhourangleend
           IN  /\ loc.l.zcoshouranglesunset <= TrigScale
               /\ start0 <= end0
               /\ (end0 <= -hs \/ start0 >= hs) => ret = 0
               /\ -hs <= loc.a.zhouranglestart
               /\ loc.a.zhouranglestart <= loc.a.zhourangleend
               /\ loc.a.zhourangleend <= hs
               /\ loc.a.zhourangleend <= loc.a.zhouranglestart => ret = 0

\* midnight on the equator at the Greenwich meridian: the window lies
\* before sunrise, both bounds are clamped to -hour_angle_sunset, 0 returned
C13_Witness ==
    /\ Averaged
    /\ args.lat = 0 /\ args.lon = 0 /\ args.h = 0 /\ args.step = 3
    /\ loc.l.zcoshouranglesunset >= -TrigScale
    /\ loc.shifted.zhouranglestart < loc.shifted.zhourangleend
    /\ loc.shifted.zhourangleend <= -AcosC(loc.l.zcoshouranglesunset)
    /\ loc.a.zhouranglestart = -AcosC(loc.l.zcoshouranglesunset)
    /\ loc.a.zhourangleend = -AcosC(loc.l.zcoshouranglesunset)
    /\ ret = 0

\* C14: the direct flux of the fp * fdir term is fdir / cossza exactly where
\* cossza > 0.01 and the fdir passed in at every other point (cossza = 0.01
\* and cossza = 0 included), and dsw = ssrd - fdir is computed from the fdir
\* passed in, before the division, at every point.
C14_DirectBeamFilter ==
    (fn = "mrt" /\ pc = "done" /\ loc.calls = 1)
        => \A i \in 1 .. Len(ret) :
              LET a == first.args
                  used == IF a.cossza[i] > 100
                          THEN MulDiv(a.fdir[i], TrigScale, a.cossza[i])
                          ELSE a.fdir[i]
                  dsw == a.ssrd[i] - a.fdir[i]
                  rsw == a.ssrd[i] - a.ssr[i]
                  lur == a.strd[i] - a.strr[i]
              IN  /\ args.fdir[i] = used
                  /\ ret[i] = RootCelsius(a.strd[i] + lur
                                 + MulDiv(dsw + rsw
                                          + 2 * MulDiv(used, ProjectedArea(a.cossza[i]), 1000),
                                          70, 97))

\* a point at the threshold cossza = 0.01, whose fdir is used as passed in,
\* beside a point just above it, whose fdir was divided
C14_Witness ==
    /\ fn = "mrt" /\ pc = "done" /\ loc.calls = 1
    /\ first.args.cossza[1] = 100 /\ first.args.fdir[1] = 1 /\ args.fdir[1] = 1
    /\ first.args.cossza[2] = 101 /\ first.args.fdir[2] = 1 /\ args.fdir[2] = 99
    /\ ret[1] # NaN /\ ret[2] # NaN
    /\ ret[1] < ret[2]

\* the calendar ordinal of a date: 1 for 1 January
RECURSIVE DaysBefore(_, _)
DaysBefore(m, y) == IF m = 1 THEN 0 ELSE DaysBefore(m - 1, y) + DaysInMonth(m - 1, y)

Ordinal(d, m, y) == DaysBefore(m, y) + d

\* C15: the day of year passed to the declination model,
\* julian_day(d, m, y) - julian_day(1, 1, y) + 1, is the integer calendar
\* ordinal of the date: 1 for 1 January, 32 for 1 February, 365 (366 in a
\* leap year) for 31 December.
C15_DayOfYearIsOrdinal ==
    (Integ /\ pc = "done")
        => loc.l.jd = Ordinal(args.d, args.m, args.y) * JDen

\* C16: for every latitude, longitude, date, hour and step the centre of
\* the window that cos_zenith_integrated averages over after the horizon
\* shift, resolved or saturated, is congruent modulo 2 pi to the solar hour
\* angle (h - 12) * 15 + lon + tc that cos_zenith uses for the same inputs.
C16_CentreIsHourAngle ==
    (Integ /\ pc = "average")
        => (loc.zhouranglestart + loc.zhourangleend
              - 2 * SolarHourAngle(args.lon, args.y, args.m, args.d, args.h)) % (4 * 18000) = 0

\* a saturated search: the centre is fifty or more turns away from the hour
\* angle of cos_zenith, and congruent to it
C16_Witness ==
    /\ Integ /\ pc = "average"
    /\ loc.val >= 100 * 18000
    /\ loc.zhouranglestart + loc.zhourangleend
          # 2 * SolarHourAngle(args.lon, args.y, args.m, args.d, args.h)
    /\ (loc.zhouranglestart + loc.zhourangleend) \div 2
          = SolarHourAngle(args.lon, args.y, args.m, args.d, args.h) - 100 * 18000

=============================================================================
